---- MODULE Spec2Model ----
(***************************************************************************)
(* The detection scheduler of the tool-board monitor:                      *)
(*   VideoStreamDetector (src/video_stream_detector.py) and                *)
(*   RealTimeTracker     (src/realtime_tracker.py).                        *)
(* One producer thread reads frames, calls detect_frame_async on each and  *)
(* handles the keyboard; detect_frame_async starts a daemon thread running *)
(* _detect_frame_worker, which runs the pipeline, assigns the published    *)
(* result and clears is_detecting.  The worker's statements interleave     *)
(* with the producer's; every worker statement that touches shared state   *)
(* is a step of its own.                                                   *)
(* Further specifications of the module: the overlay renderer running with *)
(* the scheduler (OverlaySpec), one tracker pass on frames of several      *)
(* sizes (TrackSpec), and the library functions called on their own:       *)
(* the status rule of ProductionToolDetector.detect_single_tool            *)
(* (ClassifySpec), non_max_suppression (NmsSpec) and                       *)
(* sliding_window_detection (ScanSpec).                                    *)
(***************************************************************************)
EXTENDS Integers, Sequences, FiniteSets, TLC

VARIABLES
    variant,              \* "stream" (VideoStreamDetector) or "tracker" (RealTimeTracker)
    workspace_config,     \* the catalog loaded at construction (stream), a sequence of position ids
    now,                  \* time.time(), in whole seconds
    frame,                \* content of the producer's frame buffer
    last_detection_time,  \* self.last_detection_time
    last_results,         \* self.last_results / self.detected_objects
    is_detecting,         \* self.is_detecting
    workers,              \* the _detect_frame_worker invocations that have not ended
    temp_file,            \* whether temp_frame.jpg exists
    started,              \* history: passes admitted so far (the id of the latest)
    lastTick,             \* history: how the latest detect_frame_async call of the current second returned
                          \* ("forced": it admitted a pass with a manual trigger pending)
    burstAge,             \* history: seconds since the first detect_frame_async call, counted up to the
                          \* interval and set to the interval by a manual trigger; -1 before either
    forcePending,         \* history: the manual trigger was pressed since the last admission
    admitAge,             \* history: seconds since the latest admission, counted up to the interval + 1; -1 before it
    lastEnded,            \* history: the pass that ended last, whether it raised, whether it ran longer than the interval
    frame_shape,          \* <<width, height>> of the frames the source delivers
    render,               \* the draw_results_overlay call in progress: its position and, per part drawn,
                          \* the pass whose result the part was read from
    call,                 \* a library function called on its own: its name and arguments
    ret                   \* what that call returned

scheduler_vars == <<variant, workspace_config, now, frame, last_detection_time, last_results,
                    is_detecting, workers, temp_file, started, lastTick, burstAge, forcePending,
                    admitAge, lastEnded, frame_shape>>

vars == <<variant, workspace_config, now, frame, last_detection_time, last_results,
          is_detecting, workers, temp_file, started, lastTick, burstAge, forcePending, admitAge,
          lastEnded, frame_shape, render, call, ret>>

----------------------------------------------------------------------------
(* Bounds of the model *)

MaxTime == 4
MaxPasses == 2
MaxPositions == 1
NumFrames == 2
MaxConf == 1
\* Positions of a workspace catalog
MaxCatalog == 3
\* Contrasts and thresholds are counted in units of 0.0001.
MaxContrast == 5
MaxThreshold == 2
\* Lists given to non_max_suppression: their length and their scores.
MaxDets == 3
MaxScore == 2
\* Frames given to sliding_window_detection: their sides, the window sizes
\* and the strides.
MaxDim == 4
MaxWindow == 2
MaxStride == 2
\* Camera frames up to this many pixels wider and higher than the smallest.
ShapeSlack == 1

(* Program constants *)

\* detection_interval=2.0, VideoStreamDetector.__init__
StreamInterval == 2
\* detection_interval=1.0, RealTimeTracker.__init__
TrackerInterval == 1
\* window_size=100 in _detect_frame_worker's call of sliding_window_detection
WindowSize == 100
\* stride=50 in the same call
Stride == 50
\* 1 / scale_factor, scale_factor = 0.5
ScaleInv == 2
\* self.last_detection_time = 0 in __init__.  (The faulty variant starts it
\* at the construction time instead.)
InitLastDetectionTimeNow == StreamInterval
InitLastDetectionTime == 0
\* iou_threshold=0.3 as the fraction IouNum / IouDen
IouNum == 3
IouDen == 10

\* time.time() counts seconds since 1970: it is never below any interval.
StartTime == StreamInterval

\* The smallest camera frame in which the downscaled frame holds two
\* overlapping windows side by side.
FrameWidth == 4 * WindowSize
FrameHeight == 3 * WindowSize

Frames == 1..NumFrames
NoFrame == 0
Statuses == {"present", "uncertain", "missing", "error"}
NoResult == [pass |-> 0, items |-> <<>>]
NoPass == [pass |-> 0, raised |-> FALSE, long |-> FALSE]
NoRender == [pc |-> "idle", reads |-> <<>>]
NoCall == [fn |-> "none"]
NoReturn == [done |-> FALSE]

Min(a, b) == IF a < b THEN a ELSE b
Max(a, b) == IF a > b THEN a ELSE b

detection_interval == IF variant = "stream" THEN StreamInterval ELSE TrackerInterval

----------------------------------------------------------------------------
(* RealTimeTracker.non_max_suppression and the grid of sliding_window_detection *)

\* The stop of range(0, height - window_size, stride) and of the range over
\* the width.  (The faulty variant scans up to the frame's edge.)
ScanStopAtEdge(side, s) == side
ScanStop(side, s) == side - s

\* The windows sliding_window_detection visits, in its order: y outer, x inner.
RECURSIVE CellsFrom(_, _, _, _, _, _)
CellsFrom(x, y, width, height, s, t) ==
    IF y >= ScanStop(height, s) THEN <<>>
    ELSE IF x >= ScanStop(width, s) THEN CellsFrom(0, y + t, width, height, s, t)
    ELSE <<(<<x, y, s, s>>)>> \o CellsFrom(x + t, y, width, height, s, t)

SlidingCells(width, height, s, t) == CellsFrom(0, 0, width, height, s, t)

\* sorted(detections, key=confidence, reverse=True): stable, descending.
\* (The faulty variants: ascending; descending with ties reversed.)
RECURSIVE InsertAsc(_, _)
InsertAsc(d, s) ==
    IF s = <<>> THEN <<d>>
    ELSE IF Head(s).confidence <= d.confidence THEN <<Head(s)>> \o InsertAsc(d, Tail(s))
    ELSE <<d>> \o s

RECURSIVE InsertDescTiesReversed(_, _)
InsertDescTiesReversed(d, s) ==
    IF s = <<>> THEN <<d>>
    ELSE IF Head(s).confidence > d.confidence
         THEN <<Head(s)>> \o InsertDescTiesReversed(d, Tail(s))
    ELSE <<d>> \o s

RECURSIVE InsertDesc(_, _)
InsertDesc(d, s) ==
    IF s = <<>> THEN <<d>>
    ELSE IF Head(s).confidence >= d.confidence THEN <<Head(s)>> \o InsertDesc(d, Tail(s))
    ELSE <<d>> \o s

RECURSIVE SortDesc(_)
SortDesc(s) ==
    IF s = <<>> THEN <<>>
    ELSE InsertDesc(s[Len(s)], SortDesc(SubSeq(s, 1, Len(s) - 1)))

\* if x2_inter > x1_inter and y2_inter > y1_inter: one axis of the test.
\* (The faulty variant lets touching boxes through.)
AxisOverlapOrTouch(lo, hi) == hi >= lo
AxisOverlap(lo, hi) == hi > lo

\* union = area1 + area2 - intersection.  (The faulty variant forgets the
\* intersection.)
UnionOfAreas(area1, area2, intersection) == area1 + area2
Union(area1, area2, intersection) == area1 + area2 - intersection

\* The IoU computation inside non_max_suppression: intersection and union
\* are computed, and divided, only under the overlap test.
IoU(bbox1, bbox2) ==
    LET x1_inter == Max(bbox1[1], bbox2[1])
        y1_inter == Max(bbox1[2], bbox2[2])
        x2_inter == Min(bbox1[1] + bbox1[3], bbox2[1] + bbox2[3])
        y2_inter == Min(bbox1[2] + bbox1[4], bbox2[2] + bbox2[4])
        intersection == (x2_inter - x1_inter) * (y2_inter - y1_inter)
        area1 == bbox1[3] * bbox1[4]
        area2 == bbox2[3] * bbox2[4]
    IN  IF AxisOverlap(x1_inter, x2_inter) /\ AxisOverlap(y1_inter, y2_inter)
        THEN [computed |-> TRUE, intersection |-> intersection,
              union |-> Union(area1, area2, intersection)]
        ELSE [computed |-> FALSE]

\* if intersection / union > iou_threshold, the threshold being num / den
IoUExceeds(bbox1, bbox2, num, den) ==
    LET r == IoU(bbox1, bbox2)
    IN  r.computed /\ den * r.intersection > num * r.union

\* The IoU test at the tracker worker's threshold
Overlaps(b1, b2) == IoUExceeds(b1, b2, IouNum, IouDen)

\* should_keep: no kept detection overlaps the candidate beyond the
\* threshold.  (The faulty variant looks at the latest kept detection only.)
ShouldKeepLatest(d, kept, num, den) ==
    kept = <<>> \/ ~IoUExceeds(d.bbox, kept[Len(kept)].bbox, num, den)
ShouldKeep(d, kept, num, den) ==
    \A k \in 1..Len(kept) : ~IoUExceeds(d.bbox, kept[k].bbox, num, den)

RECURSIVE Suppress(_, _, _, _)
Suppress(sorted, kept, num, den) ==
    IF sorted = <<>> THEN kept
    ELSE LET d == Head(sorted)
         IN  Suppress(Tail(sorted),
                      IF ShouldKeep(d, kept, num, den) THEN Append(kept, d) ELSE kept,
                      num, den)

non_max_suppression(detections, num, den) ==
    IF detections = <<>> THEN <<>> ELSE Suppress(SortDesc(detections), <<>>, num, den)

\* det['bbox'] = [int(x / scale_factor) for x in det['bbox']].  (The faulty
\* variant multiplies by the scale factor.)
RescaleDown(d) == [d EXCEPT !.bbox = [k \in 1..4 |-> d.bbox[k] \div ScaleInv]]
Rescale(d) == [d EXCEPT !.bbox = [k \in 1..4 |-> d.bbox[k] * ScaleInv]]

\* What sliding_window_detection can return for the downscaled frame: for
\* each window, in scan order, no detection or one with some confidence.
\* (window: the box as it was found, kept for reference.)
RECURSIVE ScanOutcomes(_)
ScanOutcomes(cells) ==
    IF cells = <<>> THEN {<<>>}
    ELSE LET rest == ScanOutcomes(Tail(cells))
         IN  rest \cup {<<[confidence |-> c, bbox |-> Head(cells),
                           window |-> Head(cells)]>> \o r :
                            c \in 1..MaxConf, r \in rest}

\* cv2.resize(frame, None, fx=0.5, fy=0.5): a side of n pixels becomes
\* round(n * 0.5); which way a half is rounded is the library's choice.
Resized(n) == {n \div ScaleInv, (n + ScaleInv - 1) \div ScaleInv}

\* The windows of sliding_window_detection(small_frame, window_size=100, stride=50)
SmallCells(small_width, small_height) ==
    SlidingCells(small_width, small_height, WindowSize, Stride)

----------------------------------------------------------------------------
(* The scheduler *)

Constructed ==
    /\ variant \in {"stream", "tracker"}
    /\ \E n \in 0..MaxPositions :
          workspace_config = IF variant = "stream" THEN [i \in 1..n |-> i] ELSE <<>>
    /\ now = StartTime
    /\ frame \in Frames
    /\ last_detection_time = InitLastDetectionTime
    /\ last_results = NoResult
    /\ is_detecting = FALSE
    /\ workers = {}
    /\ temp_file = FALSE
    /\ started = 0
    /\ lastTick = "none"
    /\ burstAge = -1
    /\ forcePending = FALSE
    /\ admitAge = -1
    /\ lastEnded = NoPass
    /\ render = NoRender
    /\ call = NoCall
    /\ ret = NoReturn

Init == Constructed /\ frame_shape = <<FrameWidth, FrameHeight>>

\* if self.is_detecting: return.  (The faulty variant has no such check.)
BusyNever == FALSE
Busy == is_detecting

\* if current_time - self.last_detection_time < self.detection_interval: return.
\* (The faulty variant never throttles.)
ThrottledNever == FALSE
Throttled == now - last_detection_time < detection_interval

\* args=(frame.copy(),): the worker's frame is a buffer of its own.  (The
\* faulty variant passes the producer's buffer itself.)
AliasFrame(f) == [ref |-> "shared", content |-> f]
CopyFrame(f) == [ref |-> "private", content |-> f]

\* What a worker reads when it reads its frame argument.
FrameSeen(w) == IF w.frame.ref = "private" THEN w.frame.content ELSE frame

NewWorker(p, f) ==
    [pass |-> p, pc |-> IF variant = "stream" THEN "imwrite" ELSE "resize",
     frame |-> CopyFrame(f), admitted |-> f, image |-> NoFrame,
     results |-> <<>>, i |-> 0, raised |-> FALSE, age |-> 0]

\* One call of detect_frame_async(frame) by the producer.
detect_frame_async ==
    /\ burstAge' = IF burstAge = -1 THEN 0 ELSE burstAge
    /\ IF Busy
       THEN /\ lastTick' = "busy"
            /\ UNCHANGED <<is_detecting, last_detection_time, workers, started,
                           forcePending, admitAge>>
       ELSE IF Throttled
       THEN /\ lastTick' = "throttled"
            /\ UNCHANGED <<is_detecting, last_detection_time, workers, started,
                           forcePending, admitAge>>
       ELSE /\ started < MaxPasses
            /\ lastTick' = IF forcePending THEN "forced" ELSE "admitted"
            /\ is_detecting' = TRUE
            /\ last_detection_time' = now
            /\ workers' = workers \cup {NewWorker(started + 1, frame)}
            /\ started' = started + 1
            /\ forcePending' = FALSE
            /\ admitAge' = 0
    /\ UNCHANGED <<variant, workspace_config, now, frame, last_results, temp_file,
                   lastEnded>>
    /\ UNCHANGED <<frame_shape, render, call, ret>>

\* The 'r' key: self.last_detection_time = 0.  (The faulty variant leaves
\* the time as it is.)
ForcedKeepsTime == last_detection_time
ForcedLastDetectionTime == 0

force_trigger ==
    /\ last_detection_time' = ForcedLastDetectionTime
    /\ burstAge' = detection_interval
    /\ forcePending' = TRUE
    /\ UNCHANGED <<variant, workspace_config, now, frame, last_results, is_detecting,
                   workers, temp_file, started, lastTick, admitAge,
                   lastEnded>>
    /\ UNCHANGED <<frame_shape, render, call, ret>>

\* ret, frame = cap.read(): the producer's buffer holds the next frame
read_frame ==
    /\ \E f \in Frames \ {frame} : frame' = f
    /\ UNCHANGED <<variant, workspace_config, now, last_detection_time, last_results,
                   is_detecting, workers, temp_file, started, lastTick, burstAge,
                   forcePending, admitAge, lastEnded>>
    /\ UNCHANGED <<frame_shape, render, call, ret>>

\* Time passes.
Older(age, cap) == IF age = -1 THEN -1 ELSE Min(age + 1, cap)

advance_time ==
    /\ now < MaxTime
    /\ now' = now + 1
    /\ burstAge' = Older(burstAge, detection_interval)
    /\ admitAge' = Older(admitAge, detection_interval + 1)
    /\ workers' = {[w EXCEPT !.age = Older(@, detection_interval + 1)] : w \in workers}
    /\ lastTick' = "none"
    /\ UNCHANGED <<variant, workspace_config, frame, last_detection_time, last_results,
                   is_detecting, temp_file, started, forcePending,
                   lastEnded>>
    /\ UNCHANGED <<frame_shape, render, call, ret>>

----------------------------------------------------------------------------
(* _detect_frame_worker, one statement at a time *)

SetWorker(w, w2) == workers' = (workers \ {w}) \cup {w2}

Raise(w) == [w EXCEPT !.pc = "finally", !.raised = TRUE]

\* The published slot while the pipeline fills, rescales and filters its
\* own local list: run_full_detection appends to a local `results`, the
\* tracker rescales a local `detections`; neither touches the slot.  (The
\* faulty variant works on the published list itself.)
ResultsSharedList(published, p, partial) == [pass |-> p, items |-> partial]
ResultsDuringPass(published, p, partial) == published

\* self.last_results = results / self.detected_objects = non_max_suppression(...)
Publish(w) ==
    [pass |-> w.pass,
     items |-> IF variant = "stream" THEN w.results ELSE non_max_suppression(w.results, IouNum, IouDen)]

\* finally: self.is_detecting = False.  (The faulty variant clears the flag
\* on the success path only.)
FlagStuckOnError(w) == w.raised
FlagAfterPass(w) == FALSE

\* The worker never assigns self.last_detection_time.  (The faulty variant
\* stamps it when the pass ends.)
TimeStampedAtEnd == now
TimeAfterPass == last_detection_time

\* cv2.imwrite(temp_path, frame), then in run_full_detection
\* Image.open(image_path).convert('RGB') (which may raise) and results = []
stream_imwrite(w) ==
    /\ w.pc = "imwrite"
    /\ temp_file' = TRUE
    /\ \E ok \in BOOLEAN :
          SetWorker(w, IF ok THEN [w EXCEPT !.pc = "detect", !.image = FrameSeen(w)]
                            ELSE Raise(w))
    /\ UNCHANGED <<variant, workspace_config, now, frame, last_detection_time,
                   last_results, is_detecting, started, lastTick, burstAge, forcePending, admitAge, lastEnded>>
    /\ UNCHANGED <<frame_shape, render, call, ret>>

\* run_full_detection's loop: one detect_single_tool and results.append per
\* position; after it avg_time = total_time / len(workspace_config), the
\* return, and the worker's self.last_results = results followed by
\* Path(temp_path).unlink(missing_ok=True).
stream_detect(w) ==
    /\ w.pc = "detect"
    /\ IF w.i < Len(workspace_config)
       THEN \E s \in Statuses :
              LET w2 == [w EXCEPT !.i = @ + 1,
                                  !.results = Append(@, [tool_id |-> workspace_config[w.i + 1],
                                                         status |-> s])]
              IN  /\ SetWorker(w, w2)
                  /\ last_results' = ResultsDuringPass(last_results, w.pass, w2.results)
                  /\ UNCHANGED temp_file
       ELSE IF Len(workspace_config) = 0
       THEN /\ SetWorker(w, Raise(w))
            /\ UNCHANGED <<last_results, temp_file>>
       ELSE /\ SetWorker(w, [w EXCEPT !.pc = "finally"])
            /\ last_results' = Publish(w)
            /\ temp_file' = FALSE
    /\ UNCHANGED <<variant, workspace_config, now, frame, last_detection_time,
                   is_detecting, started, lastTick, burstAge, forcePending, admitAge,
                   lastEnded>>
    /\ UNCHANGED <<frame_shape, render, call, ret>>

\* small_frame = cv2.resize(frame, ...); detections = sliding_window_detection(small_frame, ...)
tracker_scan(w) ==
    /\ w.pc = "resize"
    /\ \/ /\ SetWorker(w, [Raise(w) EXCEPT !.image = FrameSeen(w)])
          /\ UNCHANGED last_results
       \/ \E sw \in Resized(frame_shape[1]), sh \in Resized(frame_shape[2]) :
          \E dets \in ScanOutcomes(SmallCells(sw, sh)) :
             /\ SetWorker(w, [w EXCEPT !.pc = "rescale", !.image = FrameSeen(w),
                                       !.results = dets])
             /\ last_results' = ResultsDuringPass(last_results, w.pass, dets)
    /\ UNCHANGED <<variant, workspace_config, now, frame, last_detection_time,
                   is_detecting, temp_file, started, lastTick, burstAge, forcePending, admitAge, lastEnded>>
    /\ UNCHANGED <<frame_shape, render, call, ret>>

\* for det in detections: det['bbox'] = [int(x / scale_factor) ...]; after
\* the loop self.detected_objects = self.non_max_suppression(detections, 0.3)
tracker_rescale(w) ==
    /\ w.pc = "rescale"
    /\ IF w.i < Len(w.results)
       THEN LET w2 == [w EXCEPT !.i = @ + 1,
                                !.results[w.i + 1] = Rescale(w.results[w.i + 1])]
            IN  /\ SetWorker(w, w2)
                /\ last_results' = ResultsDuringPass(last_results, w.pass, w2.results)
       ELSE /\ SetWorker(w, [w EXCEPT !.pc = "finally"])
            /\ last_results' = Publish(w)
    /\ UNCHANGED <<variant, workspace_config, now, frame, last_detection_time,
                   is_detecting, temp_file, started, lastTick, burstAge, forcePending, admitAge, lastEnded>>
    /\ UNCHANGED <<frame_shape, render, call, ret>>

\* except Exception: print(...); finally: self.is_detecting = False
worker_finally(w) ==
    /\ w.pc = "finally"
    /\ is_detecting' = FlagAfterPass(w)
    /\ last_detection_time' = TimeAfterPass
    /\ workers' = workers \ {w}
    /\ lastEnded' = [pass |-> w.pass, raised |-> w.raised, long |-> w.age > detection_interval]
    /\ UNCHANGED <<variant, workspace_config, now, frame, last_results, temp_file,
                   started, lastTick, burstAge, forcePending, admitAge>>
    /\ UNCHANGED <<frame_shape, render, call, ret>>

worker_step ==
    \E w \in workers :
        \/ stream_imwrite(w)
        \/ stream_detect(w)
        \/ tracker_scan(w)
        \/ tracker_rescale(w)
        \/ worker_finally(w)

Next ==
    \/ detect_frame_async
    \/ force_trigger
    \/ read_frame
    \/ advance_time
    \/ \E w \in workers : stream_imwrite(w)
    \/ \E w \in workers : stream_detect(w)
    \/ \E w \in workers : tracker_scan(w)
    \/ \E w \in workers : tracker_rescale(w)
    \/ \E w \in workers : worker_finally(w)

Spec == Init /\ [][Next]_vars

\* The worker thread is scheduled and every pipeline call returns.
FairSpec == Spec /\ WF_vars(worker_step)

----------------------------------------------------------------------------
(* One pass of RealTimeTracker._detect_frame_worker on frames of several   *)
(* sizes, odd ones included: the tick that admits it and the worker's      *)
(* steps.                                                                  *)

TrackInit ==
    /\ Constructed
    /\ variant = "tracker"
    /\ \E dw, dh \in 0..ShapeSlack : frame_shape = <<FrameWidth + dw, FrameHeight + dh>>

TrackNext ==
    \/ detect_frame_async
    \/ \E w \in workers : tracker_scan(w)
    \/ \E w \in workers : tracker_rescale(w)
    \/ \E w \in workers : worker_finally(w)

TrackSpec == TrackInit /\ [][TrackNext]_vars

----------------------------------------------------------------------------
(* VideoStreamDetector.draw_results_overlay, one read of self.last_results *)
(* at a time.  The producer thread calls it after detect_frame_async; the  *)
(* worker's statements interleave with it.                                 *)

\* The parts of the overlay, in drawing order, each evaluating
\* self.last_results anew: the boxes (for result in self.last_results), the
\* three counts, the total and the per-tool list.
OverlayParts == <<"boxes", "present", "missing", "uncertain", "total", "list">>

\* if not self.last_results: return frame
overlay_begin ==
    /\ variant = "stream"
    /\ render.pc = "idle"
    /\ render' = IF last_results = NoResult \/ last_results.items = <<>>
                 THEN NoRender
                 ELSE [pc |-> OverlayParts[1], reads |-> <<>>]
    /\ UNCHANGED <<scheduler_vars, call, ret>>

\* The next part is drawn from what self.last_results holds now.
overlay_draw ==
    /\ render.pc # "idle"
    /\ LET k == Len(render.reads) + 1
       IN  render' = [pc |-> IF k < Len(OverlayParts) THEN OverlayParts[k + 1] ELSE "idle",
                      reads |-> Append(render.reads, last_results.pass)]
    /\ UNCHANGED <<scheduler_vars, call, ret>>

\* The producer thread is inside draw_results_overlay or at its loop.
OverlayNext ==
    \/ render.pc = "idle" /\ detect_frame_async
    \/ render.pc = "idle" /\ force_trigger
    \/ render.pc = "idle" /\ read_frame
    \/ advance_time
    \/ overlay_begin
    \/ overlay_draw
    \/ \E w \in workers : stream_imwrite(w)
    \/ \E w \in workers : stream_detect(w)
    \/ \E w \in workers : worker_finally(w)

OverlayInit == Init /\ variant = "stream"

OverlaySpec == OverlayInit /\ [][OverlayNext]_vars

----------------------------------------------------------------------------
(* Library functions called on their own: the arguments are drawn at the   *)
(* start, one action applies the function, the scheduler is not running.   *)

NoScheduler ==
    /\ variant = "none"
    /\ workspace_config = <<>>
    /\ now = StartTime
    /\ frame = NoFrame
    /\ last_detection_time = InitLastDetectionTime
    /\ last_results = NoResult
    /\ is_detecting = FALSE
    /\ workers = {}
    /\ temp_file = FALSE
    /\ started = 0
    /\ lastTick = "none"
    /\ burstAge = -1
    /\ forcePending = FALSE
    /\ admitAge = -1
    /\ lastEnded = NoPass
    /\ frame_shape = <<0, 0>>
    /\ render = NoRender

\* ProductionToolDetector.detect_single_tool: the status rule applied to
\* confidence_gap.  (The faulty variant compares with >=.)
StatusRuleInclusive(confidence_gap, confidence_threshold, uncertainty_threshold) ==
    IF confidence_gap >= confidence_threshold THEN "present"
    ELSE IF confidence_gap >= uncertainty_threshold THEN "uncertain"
    ELSE "missing"
StatusRule(confidence_gap, confidence_threshold, uncertainty_threshold) ==
    IF confidence_gap > confidence_threshold THEN "present"
    ELSE IF confidence_gap > uncertainty_threshold THEN "uncertain"
    ELSE "missing"

\* SystemConfig(confidence_threshold, uncertainty_threshold) and
\* ProductionToolDetector(config) accept any pair of thresholds; the region's
\* contrast is what the classifier will give for it.
ClassifyInit ==
    /\ NoScheduler
    /\ \E c \in -MaxContrast..MaxContrast, p, u \in -MaxThreshold..MaxThreshold :
          call = [fn |-> "detect_single_tool", confidence_gap |-> c,
                  confidence_threshold |-> p, uncertainty_threshold |-> u]
    /\ ret = NoReturn

\* detect_single_tool: the verdict of the status rule, or, when the crop or
\* the classifier raises, the error verdict of the except branch.
detect_single_tool ==
    /\ call.fn = "detect_single_tool"
    /\ ~ret.done
    /\ \E raised \in BOOLEAN :
          ret' = [done |-> TRUE, raised |-> raised,
                  status |-> IF raised THEN "error"
                             ELSE StatusRule(call.confidence_gap, call.confidence_threshold,
                                             call.uncertainty_threshold)]
    /\ UNCHANGED <<scheduler_vars, render, call>>

ClassifySpec == ClassifyInit /\ [][detect_single_tool]_vars

\* Boxes [x, y, w, h] given to non_max_suppression: two squares overlapping
\* by half a side (IoU 1/3), a flat box inside the first (IoU 1/2), a box
\* touching the first and inside the second (IoU 0 and 1/4), an empty box.
Boxes == {<<0, 0, 2, 2>>, <<1, 0, 2, 2>>, <<0, 1, 2, 1>>, <<2, 0, 1, 1>>, <<0, 0, 0, 0>>}

\* Values of iou_threshold as <<num, den>>: 0, the worker's 0.3, 1/2 and 1.
Thresholds == {<<0, 1>>, <<IouNum, IouDen>>, <<1, 2>>, <<1, 1>>}

\* A list of dicts; id stands for the identity of each dict.
NmsInit ==
    /\ NoScheduler
    /\ \E n \in 0..MaxDets :
          \E scores \in [1..n -> 1..MaxScore], boxes \in [1..n -> Boxes], t \in Thresholds :
             call = [fn |-> "non_max_suppression",
                     detections |-> [k \in 1..n |-> [id |-> k, confidence |-> scores[k],
                                                     bbox |-> boxes[k]]],
                     num |-> t[1], den |-> t[2]]
    /\ ret = NoReturn

\* self.non_max_suppression(detections, iou_threshold)
call_non_max_suppression ==
    /\ call.fn = "non_max_suppression"
    /\ ~ret.done
    /\ ret' = [done |-> TRUE,
               value |-> non_max_suppression(call.detections, call.num, call.den)]
    /\ UNCHANGED <<scheduler_vars, render, call>>

NmsSpec == NmsInit /\ [][call_non_max_suppression]_vars

\* window = frame_rgb[y:y+window_size, x:x+window_size]: the pixels a cell's
\* slice takes from a width x height frame (a slice stops at the edge).
Window(cell, width, height) ==
    [x |-> cell[1], y |-> cell[2],
     w |-> Min(cell[1] + cell[3], width) - Min(cell[1], width),
     h |-> Min(cell[2] + cell[4], height) - Min(cell[2], height)]

\* The classifier finds a tool in a window when the window shows the object.
NoObject == <<-1, -1>>
Shows(win, object) ==
    /\ object # NoObject
    /\ object[1] >= win.x /\ object[1] < win.x + win.w
    /\ object[2] >= win.y /\ object[2] < win.y + win.h

\* sliding_window_detection(frame, window_size, stride): the windows cut out
\* and the detections appended, both in scan order.
sliding_window_detection(width, height, window_size, stride, object) ==
    LET cells == SlidingCells(width, height, window_size, stride)
        windows == [k \in 1..Len(cells) |-> Window(cells[k], width, height)]
        hit(cell) == Shows(Window(cell, width, height), object)
    IN  [windows |-> windows,
         detections |-> [k \in 1..Len(SelectSeq(cells, hit)) |->
                            [confidence |-> 1, bbox |-> SelectSeq(cells, hit)[k]]]]

\* A frame of any size with at most one object, a window size and a stride.
ScanInit ==
    /\ NoScheduler
    /\ \E width, height \in 0..MaxDim, window_size \in 1..MaxWindow, stride \in 1..MaxStride :
          \E object \in {NoObject} \cup ((0..(width - 1)) \X (0..(height - 1))) :
             call = [fn |-> "sliding_window_detection", width |-> width, height |-> height,
                     window_size |-> window_size, stride |-> stride, object |-> object]
    /\ ret = NoReturn

call_sliding_window_detection ==
    /\ call.fn = "sliding_window_detection"
    /\ ~ret.done
    /\ ret' = [done |-> TRUE,
               value |-> sliding_window_detection(call.width, call.height, call.window_size,
                                                  call.stride, call.object)]
    /\ UNCHANGED <<scheduler_vars, render, call>>

ScanSpec == ScanInit /\ [][call_sliding_window_detection]_vars

----------------------------------------------------------------------------
(* Strings: a Python str is the sequence of its characters *)

hammer == <<"h", "a", "m", "m", "e", "r">>
pliers == <<"p", "l", "i", "e", "r", "s">>
screwdriver == <<"s", "c", "r", "e", "w", "d", "r", "i", "v", "e", "r">>
wrench == <<"w", "r", "e", "n", "c", "h">>
cutter == <<"c", "u", "t", "t", "e", "r">>
flat_screwdriver ==
    <<"f", "l", "a", "t", "_", "s", "c", "r", "e", "w", "d", "r", "i", "v", "e", "r">>
cross_screwdriver ==
    <<"c", "r", "o", "s", "s", "_", "s", "c", "r", "e", "w", "d", "r", "i", "v", "e", "r">>
tape_measure == <<"t", "a", "p", "e", "_", "m", "e", "a", "s", "u", "r", "e">>
hex_key_set == <<"h", "e", "x", "_", "k", "e", "y", "_", "s", "e", "t">>
screw_box == <<"s", "c", "r", "e", "w", "_", "b", "o", "x">>
TapeMeasure == <<"t", "a", "p", "e", " ", "m", "e", "a", "s", "u", "r", "e">>
HexKey == <<"h", "e", "x", " ", "k", "e", "y">>
ScrewBox == <<"s", "c", "r", "e", "w", " ", "b", "o", "x">>
PositionSuffix == <<"_", "p", "o", "s", "i", "t", "i", "o", "n">>

\* str.lower()
UpperCase ==
    <<"A", "B", "C", "D", "E", "F", "G", "H", "I", "J", "K", "L", "M",
      "N", "O", "P", "Q", "R", "S", "T", "U", "V", "W", "X", "Y", "Z">>
LowerCase ==
    <<"a", "b", "c", "d", "e", "f", "g", "h", "i", "j", "k", "l", "m",
      "n", "o", "p", "q", "r", "s", "t", "u", "v", "w", "x", "y", "z">>
UpperCaseLetters == {UpperCase[k] : k \in 1..Len(UpperCase)}
LowerChar(c) ==
    IF c \in UpperCaseLetters
    THEN LowerCase[CHOOSE k \in 1..Len(UpperCase) : UpperCase[k] = c]
    ELSE c
Lower(s) == [k \in 1..Len(s) |-> LowerChar(s[k])]

\* a in b, for two strings
Contains(b, a) == \E k \in 0..(Len(b) - Len(a)) : SubSeq(b, k + 1, k + Len(a)) = a

\* None, and the truth value of an Optional[str] in `if found_at:`
None == <<>>
Truthy(s) == s # None

----------------------------------------------------------------------------
(* One pass over the workspace catalog: run_full_detection *)

\* The catalog as load_workspace_configuration builds it, one entry per
\* annotation: "id" (tool_<annotation id>), "name" (the category's name) and
\* "bbox" ([x, y, w, h]).  Annotation i of the file has the box BoxOf(i).
BoxOf(i) == <<10 * i, 20 * i, 30, 40>>
ToolConfig(i, name) == [id |-> i, name |-> name, bbox |-> BoxOf(i)]

\* What classifying one region comes to: one of the three statuses of the
\* status rule, or an exception inside detect_single_tool's try block.
Raises == "raise"
Outcomes == (Statuses \ {"error"}) \cup {Raises}

\* roi_bbox = [int(x), int(y), int(x+w), int(y+h)]
roi_bbox(bbox) == <<bbox[1], bbox[2], bbox[1] + bbox[3], bbox[2] + bbox[4]>>

\* The DetectionResult detect_single_tool returns: from the try block with
\* bbox=roi_bbox, from the except branch with status "error" and
\* bbox=[0, 0, 0, 0].
DetectionResult(tool_config, outcome) ==
    IF outcome = Raises
    THEN [tool_id |-> tool_config.id, tool_name |-> tool_config.name, status |-> "error",
          bbox |-> <<0, 0, 0, 0>>]
    ELSE [tool_id |-> tool_config.id, tool_name |-> tool_config.name, status |-> outcome,
          bbox |-> roi_bbox(tool_config.bbox)]

\* results.append(result) for every result, the error results included.
\* (The faulty variant collects the classified positions only.)
AppendClassified(results, result) ==
    IF result.status = "error" THEN results ELSE Append(results, result)
AppendResult(results, result) == Append(results, result)

\* for i, tool_config in enumerate(workspace_config, 1):
\*     result = self.detect_single_tool(image, tool_config); results.append(result)
RECURSIVE DetectEach(_, _, _, _)
DetectEach(config, outcomes, i, results) ==
    IF i > Len(config) THEN results
    ELSE DetectEach(config, outcomes, i + 1,
                    AppendResult(results, DetectionResult(config[i], outcomes[i])))

\* run_full_detection: Image.open(image_path) raises for a file that is no
\* image; after the loop avg_time = total_time / len(workspace_config)
\* raises ZeroDivisionError for a catalog without positions; except: raise.
run_full_detection(loadable, config, outcomes) ==
    IF ~loadable THEN [raised |-> TRUE, error |-> "UnidentifiedImageError"]
    ELSE LET results == DetectEach(config, outcomes, 1, <<>>)
         IN  IF Len(config) = 0 THEN [raised |-> TRUE, error |-> "ZeroDivisionError"]
             ELSE [raised |-> FALSE, results |-> results]

\* Catalogs of up to MaxCatalog positions, the annotations in any order.
Catalogs ==
    UNION {{c \in [1..n -> {ToolConfig(i, hammer) : i \in 1..MaxCatalog}] :
               \A j, k \in 1..n : j # k => c[j] # c[k]} : n \in 0..MaxCatalog}

DetectInit ==
    /\ NoScheduler
    /\ \E config \in Catalogs, loadable \in BOOLEAN :
       \E outcomes \in [1..Len(config) -> Outcomes] :
          call = [fn |-> "run_full_detection", loadable |-> loadable, config |-> config,
                  outcomes |-> outcomes]
    /\ ret = NoReturn

call_run_full_detection ==
    /\ call.fn = "run_full_detection"
    /\ ~ret.done
    /\ ret' = [done |-> TRUE,
               value |-> run_full_detection(call.loadable, call.config, call.outcomes)]
    /\ UNCHANGED <<scheduler_vars, render, call>>

DetectSpec == DetectInit /\ [][call_run_full_detection]_vars

----------------------------------------------------------------------------
(* The status summaries of a result set *)

\* sum(1 for r in results if r.status == status)
CountStatus(results, status) ==
    Cardinality({i \in 1..Len(results) : results[i].status = status})

\* completeness_rate >= percent, for completeness_rate = part / whole * 100
\* (0.0 when there is nothing to divide by)
RateAtLeast(part, whole, percent) ==
    IF whole = 0 THEN 0 >= percent ELSE part * 100 >= percent * whole

\* analyze_workspace_status: the five counts, the completeness over the
\* verdicts that are not errors, the overall status and one alert per
\* missing and per error verdict.
analyze_workspace_status(results) ==
    LET present == CountStatus(results, "present")
        valid == Len(results) - CountStatus(results, "error")
        isAlert(r) == r.status \in {"missing", "error"}
        alerts == SelectSeq(results, isAlert)
    IN  [total_tools |-> Len(results),
         present_tools |-> present,
         missing_tools |-> CountStatus(results, "missing"),
         uncertain_tools |-> CountStatus(results, "uncertain"),
         error_tools |-> CountStatus(results, "error"),
         completeness_rate |-> IF valid = 0 THEN <<0, 1>> ELSE <<present * 100, valid>>,
         overall_status |-> IF RateAtLeast(present, valid, 90) THEN "excellent"
                            ELSE IF RateAtLeast(present, valid, 75) THEN "good"
                            ELSE IF RateAtLeast(present, valid, 50) THEN "fair"
                            ELSE "poor",
         alerts |-> [k \in 1..Len(alerts) |->
                        [type |-> IF alerts[k].status = "missing" THEN "missing_tool"
                                  ELSE "detection_error",
                         tool_id |-> alerts[k].tool_id]]]

\* draw_results_overlay, the status bar: nothing is drawn for an empty
\* result set; otherwise "Total | Present | Missing | Uncertain", the
\* completeness present_count / total_count, and per verdict the mark of
\* its status, where every status but present and missing gets "?".
overlay_status_bar(results) ==
    IF results = <<>> THEN [drawn |-> FALSE]
    ELSE [drawn |-> TRUE,
          counts |-> [total |-> Len(results),
                      present |-> CountStatus(results, "present"),
                      missing |-> CountStatus(results, "missing"),
                      uncertain |-> CountStatus(results, "uncertain")],
          completeness |-> <<CountStatus(results, "present") * 100, Len(results)>>,
          marks |-> [i \in 1..Len(results) |->
                        IF results[i].status = "present" THEN "present"
                        ELSE IF results[i].status = "missing" THEN "missing"
                        ELSE "uncertain"]]

\* The result sets run_full_detection returns, and the empty one.
SummaryInit ==
    /\ NoScheduler
    /\ \E config \in Catalogs, fn \in {"analyze_workspace_status", "draw_results_overlay"} :
       \E outcomes \in [1..Len(config) -> Outcomes] :
          call = [fn |-> fn, results |-> DetectEach(config, outcomes, 1, <<>>)]
    /\ ret = NoReturn

call_analyze_workspace_status ==
    /\ call.fn = "analyze_workspace_status"
    /\ ~ret.done
    /\ ret' = [done |-> TRUE, value |-> analyze_workspace_status(call.results)]
    /\ UNCHANGED <<scheduler_vars, render, call>>

call_draw_results_overlay ==
    /\ call.fn = "draw_results_overlay"
    /\ ~ret.done
    /\ ret' = [done |-> TRUE, value |-> overlay_status_bar(call.results)]
    /\ UNCHANGED <<scheduler_vars, render, call>>

SummaryNext ==
    \/ call_analyze_workspace_status
    \/ call_draw_results_overlay

SummarySpec == SummaryInit /\ [][SummaryNext]_vars

----------------------------------------------------------------------------
(* The misplacement resolver: detect_with_misplacement_check *)

\* self.tool_mapping.get(tool_name, tool_name)
tool_mapping(tool_name) ==
    CASE tool_name = hammer -> hammer
      [] tool_name = flat_screwdriver -> screwdriver
      [] tool_name = cross_screwdriver -> screwdriver
      [] tool_name = cutter -> cutter
      [] tool_name = tape_measure -> TapeMeasure
      [] tool_name = hex_key_set -> HexKey
      [] tool_name = screw_box -> ScrewBox
      [] tool_name = pliers -> pliers
      [] tool_name = wrench -> wrench
      [] OTHER -> tool_name

\* _is_correct_tool: equality, containment either way, or the screwdriver
\* rule, all on the lower-cased strings.
is_correct_tool(expected, detected) ==
    LET expected_lower == Lower(expected)
        detected_lower == Lower(detected)
    IN  \/ expected_lower = detected_lower
        \/ Contains(detected_lower, expected_lower)
        \/ Contains(expected_lower, detected_lower)
        \/ (expected_lower = screwdriver /\ Contains(detected_lower, screwdriver))

\* A dict is the sequence of its items in insertion order; assigning to a
\* key it already has replaces the value and keeps the key's place.
DictHas(d, key) == \E k \in 1..Len(d) : d[k].key = key
DictGet(d, key) == d[CHOOSE k \in 1..Len(d) : d[k].key = key].value
DictSet(d, key, value) ==
    IF DictHas(d, key)
    THEN [k \in 1..Len(d) |-> IF d[k].key = key THEN [key |-> key, value |-> value] ELSE d[k]]
    ELSE Append(d, [key |-> key, value |-> value])

\* f"{position}_position"
PositionOf(position) == position \o PositionSuffix

\* What SimpleImageDetector.detect_tools_in_image returns for a region: None
\* (the crop could not be read or the classifier raised) or the best of its
\* tool_names with its score.
NoOutcome == [returned |-> FALSE]
DetectedLabels == {hammer, pliers, screwdriver}

\* First phase: roi_analysis[expected_tool] = {...} for every catalog entry
\* whose region gave an outcome (if detection_result:).
RECURSIVE AnalyzeEach(_, _, _, _)
AnalyzeEach(config, outcomes, i, roi_analysis) ==
    IF i > Len(config) THEN roi_analysis
    ELSE AnalyzeEach(config, outcomes, i + 1,
            IF outcomes[i].returned
            THEN DictSet(roi_analysis, config[i].name,
                         [detected |-> outcomes[i].tool, confidence |-> outcomes[i].score,
                          position |-> PositionOf(config[i].name), bbox |-> config[i].bbox])
            ELSE roi_analysis)

\* _find_tool_elsewhere: the first item of roi_analysis, other than
\* exclude_position, whose detected class matches; None when there is none.
RECURSIVE find_tool_elsewhere(_, _, _)
find_tool_elsewhere(expected_tool, roi_analysis, exclude_position) ==
    IF roi_analysis = <<>> THEN None
    ELSE IF /\ Head(roi_analysis).key # exclude_position
            /\ is_correct_tool(expected_tool, Head(roi_analysis).value.detected)
         THEN PositionOf(Head(roi_analysis).key)
         ELSE find_tool_elsewhere(expected_tool, Tail(roi_analysis), exclude_position)

\* The items _find_tool_elsewhere is given: the whole roi_analysis, whatever
\* the verdicts before this one found.  (The faulty variant leaves out the
\* positions an earlier verdict was found at.)
ElsewhereUnclaimed(roi_analysis, results) ==
    LET unclaimed(item) ==
            \A k \in 1..Len(results) : results[k].found_at # PositionOf(item.key)
    IN  SelectSeq(roi_analysis, unclaimed)
Elsewhere(roi_analysis, results) == roi_analysis

\* Second phase, one catalog entry: roi_info = roi_analysis.get(tool_name, {}),
\* detected_type = roi_info.get('detected', ''), the status and the
\* EnhancedDetectionResult.
EnhancedDetectionResult(tool_config, roi_analysis, results) ==
    LET tool_name == tool_config.name
        expected_type == tool_mapping(tool_name)
        has_info == DictHas(roi_analysis, tool_name)
        detected_type == IF has_info THEN DictGet(roi_analysis, tool_name).detected ELSE <<>>
        correct == is_correct_tool(expected_type, detected_type)
        found_at == IF correct THEN None
                    ELSE find_tool_elsewhere(expected_type, Elsewhere(roi_analysis, results),
                                             tool_name)
    IN  [tool_name |-> tool_name,
         expected_position |-> PositionOf(tool_name),
         actual_status |-> IF correct THEN "correct"
                           ELSE IF Truthy(found_at) THEN "misplaced"
                           ELSE "missing",
         confidence |-> IF has_info THEN DictGet(roi_analysis, tool_name).confidence ELSE 0,
         found_at |-> found_at,
         bbox |-> IF has_info THEN DictGet(roi_analysis, tool_name).bbox ELSE <<>>]

RECURSIVE ResolveEach(_, _, _, _)
ResolveEach(config, roi_analysis, i, results) ==
    IF i > Len(config) THEN results
    ELSE ResolveEach(config, roi_analysis, i + 1,
                     Append(results, EnhancedDetectionResult(config[i], roi_analysis, results)))

detect_with_misplacement_check(config, outcomes) ==
    LET roi_analysis == AnalyzeEach(config, outcomes, 1, <<>>)
    IN  [roi_analysis |-> roi_analysis,
         results |-> ResolveEach(config, roi_analysis, 1, <<>>)]

\* Catalogs of up to MaxCatalog positions; two annotations may have the same
\* category, hence the same name.
CatalogNames == {hammer, pliers, flat_screwdriver, cross_screwdriver}
NamedCatalogs ==
    UNION {{[i \in 1..n |-> ToolConfig(i, names[i])] : names \in [1..n -> CatalogNames]} :
              n \in 0..MaxCatalog}
\* The region of position i gives no outcome, or a label with score i.
RegionOutcome(i, tool) ==
    IF tool = None THEN NoOutcome ELSE [returned |-> TRUE, tool |-> tool, score |-> i]

ResolveInit ==
    /\ NoScheduler
    /\ \E config \in NamedCatalogs :
       \E tools \in [1..Len(config) -> DetectedLabels \cup {None}] :
          call = [fn |-> "detect_with_misplacement_check", config |-> config,
                  outcomes |-> [i \in 1..Len(config) |-> RegionOutcome(i, tools[i])]]
    /\ ret = NoReturn

call_detect_with_misplacement_check ==
    /\ call.fn = "detect_with_misplacement_check"
    /\ ~ret.done
    /\ ret' = [done |-> TRUE,
               value |-> detect_with_misplacement_check(call.config, call.outcomes)]
    /\ UNCHANGED <<scheduler_vars, render, call>>

ResolveSpec == ResolveInit /\ [][call_detect_with_misplacement_check]_vars

----------------------------------------------------------------------------
(* Loading the workspace catalog: instances_default.json *)

\* The annotation file: missing, not JSON, or a document whose annotations
\* each have the keys the loader reads (and a category the document lists)
\* or lack one of them.
MissingFile == [exists |-> FALSE]
UnparsableFile == [exists |-> TRUE, parses |-> FALSE]
MalformedAnnotation == [wellformed |-> FALSE]
Annotation(name) == [wellformed |-> TRUE, name |-> name]
AnnotationFiles ==
    {MissingFile, UnparsableFile} \cup
    UNION {{[exists |-> TRUE, parses |-> TRUE, annotations |-> a] :
               a \in [1..n -> {MalformedAnnotation, Annotation(hammer), Annotation(pliers)}]} :
              n \in 0..MaxCatalog}

\* except Exception as e: self.logger.error(...); raise.  (The faulty
\* variant returns the entries built before the failure.)
LoadFailureReturnsPartial(error, config) ==
    [raised |-> FALSE, value |-> config]
LoadFailure(error, config) == [raised |-> TRUE, error |-> error]

\* for ann in data['annotations']: tool_config = {...}; workspace_config.append(tool_config)
\* where ann['bbox'] or categories[ann['category_id']] raises KeyError for an
\* annotation that lacks it.
RECURSIVE LoadEach(_, _, _)
LoadEach(annotations, i, config) ==
    IF i > Len(annotations) THEN [raised |-> FALSE, value |-> config]
    ELSE IF ~annotations[i].wellformed THEN LoadFailure("KeyError", config)
    ELSE LoadEach(annotations, i + 1, Append(config, ToolConfig(i, annotations[i].name)))

\* load_workspace_configuration: open, json.load, then the loop.
load_workspace_configuration(file) ==
    IF ~file.exists THEN LoadFailure("FileNotFoundError", <<>>)
    ELSE IF ~file.parses THEN LoadFailure("JSONDecodeError", <<>>)
    ELSE LoadEach(file.annotations, 1, <<>>)

\* VideoStreamDetector.__init__: raise FileNotFoundError unless the path
\* exists; an exception of load_workspace_configuration is not caught.
VideoStreamDetector(file) ==
    IF ~file.exists THEN [raised |-> TRUE, error |-> "FileNotFoundError"]
    ELSE LET loaded == load_workspace_configuration(file)
         IN  IF loaded.raised THEN loaded
             ELSE [raised |-> FALSE, workspace_config |-> loaded.value, passes |-> 0]

\* VideoToolDetector.setup_detectors: True with self.workspace_config set,
\* False when anything in the try block raised.
setup_detectors(file) ==
    LET loaded == load_workspace_configuration(file)
    IN  IF loaded.raised THEN [value |-> FALSE, frames |-> 0]
        ELSE [value |-> TRUE, workspace_config |-> loaded.value, frames |-> 0]

LoadInit ==
    /\ NoScheduler
    /\ \E file \in AnnotationFiles,
          fn \in {"load_workspace_configuration", "VideoStreamDetector", "setup_detectors"} :
          call = [fn |-> fn, file |-> file]
    /\ ret = NoReturn

call_load_workspace_configuration ==
    /\ call.fn = "load_workspace_configuration"
    /\ ~ret.done
    /\ ret' = [done |-> TRUE] @@ load_workspace_configuration(call.file)
    /\ UNCHANGED <<scheduler_vars, render, call>>

\* detector = VideoStreamDetector(config, detection_interval=1.5)
construct_VideoStreamDetector ==
    /\ call.fn = "VideoStreamDetector"
    /\ ~ret.done
    /\ ret' = [done |-> TRUE] @@ VideoStreamDetector(call.file)
    /\ UNCHANGED <<scheduler_vars, render, call>>

\* detector.run_camera_detection(...): the first pass of the constructed
\* detector is admitted.
first_pass ==
    /\ call.fn = "VideoStreamDetector"
    /\ ret.done
    /\ ~ret.raised
    /\ ret.passes = 0
    /\ ret' = [ret EXCEPT !.passes = 1]
    /\ UNCHANGED <<scheduler_vars, render, call>>

\* main: if not video_detector.setup_detectors(): return
call_setup_detectors ==
    /\ call.fn = "setup_detectors"
    /\ ~ret.done
    /\ ret' = [done |-> TRUE] @@ setup_detectors(call.file)
    /\ UNCHANGED <<scheduler_vars, render, call>>

\* main, after setup_detectors returned True: process_video_file or
\* process_camera_stream hands the first frame to detect_frame.
process_frame ==
    /\ call.fn = "setup_detectors"
    /\ ret.done
    /\ ret.value
    /\ ret.frames = 0
    /\ ret' = [ret EXCEPT !.frames = 1]
    /\ UNCHANGED <<scheduler_vars, render, call>>

LoadNext ==
    \/ call_load_workspace_configuration
    \/ construct_VideoStreamDetector
    \/ first_pass
    \/ call_setup_detectors
    \/ process_frame

LoadSpec == LoadInit /\ [][LoadNext]_vars

----------------------------------------------------------------------------
(* Properties *)

\* C1: at most one _detect_frame_worker invocation is active at any time,
\* whatever the order and rate of ticks and manual triggers.
C1_AtMostOneWorker == Cardinality(workers) <= 1

\* A tick and a manual trigger were both issued while a pass was in flight.
C1_Witness ==
    /\ Cardinality(workers) = 1
    /\ is_detecting
    /\ lastTick = "busy"
    /\ forcePending

\* C2: when the worker is scheduled and the pipeline returns, every pass,
\* raised or not, is followed by is_detecting = False.
C2_ReturnsToIdle == is_detecting ~> ~is_detecting

\* A pass that raised has ended and a later tick has admitted the next one.
C2_Witness ==
    /\ lastEnded.pass = 1
    /\ lastEnded.raised
    /\ started = 2
    /\ is_detecting

\* C3: after a pass that raised, the published slot holds the outcome of
\* that pass (an error result set or marker), not an earlier one.
C3_ErrorOutcomePublished == lastEnded.raised => last_results.pass = lastEnded.pass

\* C4: the result of the pass in flight is never visible while is_detecting
\* is still True, and a pass that succeeded is never idle and unpublished.
C4_AtomicPublishAndClear ==
    /\ is_detecting => last_results.pass # started
    /\ (~is_detecting /\ lastEnded.pass > 0 /\ ~lastEnded.raised)
          => last_results.pass = lastEnded.pass

\* The list a finished pipeline returns: one verdict per catalog position
\* (stream); full-resolution boxes left by the suppression (tracker).
Complete(rs) ==
    IF variant = "stream"
    THEN /\ Len(rs.items) = Len(workspace_config)
         /\ \A k \in 1..Len(rs.items) :
               /\ rs.items[k].tool_id = workspace_config[k]
               /\ rs.items[k].status \in Statuses
    ELSE /\ \A k \in 1..Len(rs.items) :
               /\ rs.items[k].bbox[3] = WindowSize * ScaleInv
               /\ rs.items[k].bbox[4] = WindowSize * ScaleInv
         /\ \A j, k \in 1..Len(rs.items) :
               j # k => ~Overlaps(rs.items[j].bbox, rs.items[k].bbox)

\* C5: the published slot holds the initial sentinel or the complete list
\* of a pass whose pipeline has returned, in every state of every interleaving.
C5_PublishedIsComplete ==
    \/ last_results = NoResult
    \/ /\ Complete(last_results)
       /\ last_results.pass \in 1..started
       /\ \A w \in workers :
             w.pass = last_results.pass => w.pc = "finally"

\* The second pass is half way through rescaling its list while the slot
\* holds the first pass's result.
C5_Witness ==
    \E w \in workers :
        /\ w.pass = 2
        /\ w.pc = "rescale"
        /\ w.i = 1
        /\ Len(w.results) = 2
        /\ last_results.pass = 1

\* C6: an idle tick inside the interval, with no manual trigger pending,
\* starts nothing and leaves result, flag and last_detection_time alone.
C6_ThrottledTickIsNoOp ==
    [][(/\ detect_frame_async
        /\ ~is_detecting
        /\ ~forcePending
        /\ now - last_detection_time < detection_interval)
          => UNCHANGED <<last_results, is_detecting, last_detection_time, workers,
                         started>>]_vars

\* An idle tick was throttled after an earlier pass.
C6_Witness ==
    /\ lastTick = "throttled"
    /\ ~is_detecting
    /\ ~forcePending
    /\ workers = {}
    /\ lastEnded.pass = 1
    /\ started = 1

\* C7: from construction, while every tick so far lies less than the
\* interval after the first and no manual trigger was pressed (burstAge
\* below the interval), exactly one pass has been admitted, by the first tick.
C7_BurstAdmitsOnce ==
    burstAge \in 0..(detection_interval - 1) => (started = 1 /\ admitAge = burstAge)

\* Inside the burst the pass has completed and a later tick was throttled.
C7_Witness ==
    /\ lastTick = "throttled"
    /\ burstAge \in 0..(detection_interval - 1)
    /\ lastEnded.pass = 1
    /\ started = 1

\* C8: last_detection_time is the admission time and no worker step
\* changes it; an idle tick at least one interval after the latest
\* admission is admitted.
C8_StartTimeRecorded ==
    [][/\ worker_step => last_detection_time' = last_detection_time
       /\ (detect_frame_async /\ started' = started + 1) => last_detection_time' = now
       /\ (/\ detect_frame_async
           /\ ~is_detecting
           /\ started > 0
           /\ admitAge >= detection_interval)
             => (lastTick' \in {"admitted", "forced"} /\ started' = started + 1)]_vars

\* The first pass ran longer than the interval and the second was then
\* admitted with no manual trigger.
C8_Witness ==
    /\ started = 2
    /\ lastTick = "admitted"
    /\ lastEnded.pass = 1
    /\ lastEnded.long

\* C9: the manual trigger changes nothing but last_detection_time, so it
\* neither stops nor restarts a pass in flight, and the first idle tick
\* after it admits a pass.
C9_ForceZeroesInterval ==
    [][/\ force_trigger => UNCHANGED <<workers, is_detecting, last_results, started,
                                       temp_file>>
       /\ (detect_frame_async /\ ~is_detecting /\ forcePending)
             => (lastTick' = "forced" /\ started' = started + 1)]_vars

\* A second pass was admitted less than one interval after the first began,
\* after a manual trigger.
C9_Witness ==
    /\ started = 2
    /\ lastTick = "forced"
    /\ now - StartTime < detection_interval

\* C10: what the pipeline classifies is the frame content at the admitting
\* tick, whatever the producer has put into its buffer since.
C10_PrivateFrame ==
    \A w \in workers : w.image # NoFrame => w.image = w.admitted

\* The pipeline has read its frame while the producer's buffer already
\* holds a different one.
C10_Witness ==
    \E w \in workers :
        /\ w.image # NoFrame
        /\ w.image = w.admitted
        /\ frame # w.admitted

\* C11: the parts drawn by one draw_results_overlay call all come from the
\* result of one pass, also when the worker publishes during the call.
C11_RenderUsesOneResultSet ==
    \A i, j \in 1..Len(render.reads) : render.reads[i] = render.reads[j]

\* The region was classified by the status rule.
Classified == call.fn = "detect_single_tool" /\ ret.done /\ ~ret.raised

\* C12: with confidence_threshold P >= uncertainty_threshold U the verdict
\* for contrast c is present iff c > P, uncertain iff U < c <= P, missing
\* iff c <= U, whatever the sign of P; with P = 0.0001 and U = -0.0001,
\* 0.0002 is present, 0.0 uncertain and -0.0005 missing.
C12_StatusRule ==
    (Classified /\ call.confidence_threshold >= call.uncertainty_threshold) =>
        LET c == call.confidence_gap
            P == call.confidence_threshold
            U == call.uncertainty_threshold
        IN  /\ ret.status = "present" <=> c > P
            /\ ret.status = "uncertain" <=> (U < c /\ c <= P)
            /\ ret.status = "missing" <=> c <= U
            /\ (P = 1 /\ U = -1 /\ c = 2) => ret.status = "present"
            /\ (P = 1 /\ U = -1 /\ c = 0) => ret.status = "uncertain"
            /\ (P = 1 /\ U = -1 /\ c = -5) => ret.status = "missing"

\* A contrast equal to a negative present threshold was classified uncertain.
C12_Witness ==
    /\ Classified
    /\ call.confidence_threshold = -1
    /\ call.uncertainty_threshold = -2
    /\ call.confidence_gap = -1
    /\ ret.status = "uncertain"

\* C13: under a configuration with confidence_threshold below
\* uncertainty_threshold no region is classified: no verdict is produced.
C13_MisorderedConfigRejected ==
    (call.fn = "detect_single_tool" /\ call.confidence_threshold < call.uncertainty_threshold)
        => ~(ret.done /\ ret.status \in {"present", "uncertain", "missing"})

\* non_max_suppression has returned.
Suppressed == call.fn = "non_max_suppression" /\ ret.done

\* The geometry of two boxes [x, y, w, h]: the length two intervals share,
\* the area two boxes share, the area they cover.
SharedLength(a, la, b, lb) == Max(0, Min(a + la, b + lb) - Max(a, b))
SharedArea(A, B) == SharedLength(A[1], A[3], B[1], B[3]) * SharedLength(A[2], A[4], B[2], B[4])
CoveredArea(A, B) == A[3] * A[4] + B[3] * B[4] - SharedArea(A, B)

\* IoU(A, B) > num / den, the IoU of boxes that share no area being 0.
IoUAbove(A, B, num, den) ==
    LET shared == SharedArea(A, B)
    IN  shared > 0 /\ den * shared > num * (A[3] * A[4] + B[3] * B[4] - shared)

\* C14: no two detections of the output of non_max_suppression have an IoU
\* greater than iou_threshold.
C14_NoOverlapInOutput ==
    Suppressed =>
        \A i, j \in 1..Len(ret.value) :
            i # j => ~IoUAbove(ret.value[i].bbox, ret.value[j].bbox, call.num, call.den)

\* Of three detections one was suppressed and two were kept, each of which
\* overlaps the suppressed one beyond the threshold.
C14_Witness ==
    /\ Suppressed
    /\ Len(call.detections) = 3
    /\ Len(ret.value) = 2
    /\ \E k \in 1..3 :
          /\ \A i \in 1..2 : ret.value[i].id # k
          /\ IoUAbove(call.detections[k].bbox, ret.value[1].bbox, call.num, call.den)
          /\ IoUAbove(call.detections[k].bbox, ret.value[2].bbox, call.num, call.den)

\* C15: the output is a sub-collection of the input (no more detections,
\* each one an unaltered detection of the input, none twice), it holds a
\* detection of the input's maximum score, and it is empty for an empty input.
C15_SubCollectionWithMaximum ==
    Suppressed =>
        LET in == call.detections
            out == ret.value
        IN  /\ Len(out) <= Len(in)
            /\ \A k \in 1..Len(out) : out[k].id \in 1..Len(in) /\ out[k] = in[out[k].id]
            /\ \A i, j \in 1..Len(out) : i # j => out[i].id # out[j].id
            /\ in # <<>> => \E k \in 1..Len(out) :
                               \A i \in 1..Len(in) : out[k].confidence >= in[i].confidence
            /\ in = <<>> => out = <<>>

\* The highest-scoring detection came last in the input and suppressed the
\* two before it.
C15_Witness ==
    /\ Suppressed
    /\ Len(call.detections) = 3
    /\ Len(ret.value) = 1
    /\ ret.value[1].id = 3
    /\ call.detections[1].confidence < call.detections[3].confidence

\* d comes before e when the detections are sorted by score, ties in input order.
RankedBefore(d, e) ==
    d.confidence > e.confidence \/ (d.confidence = e.confidence /\ d.id < e.id)

C17_IoUSymmetricAndZeroWhenApart ==
    Suppressed =>
        \A i, j \in 1..Len(call.detections) :
            LET A == call.detections[i].bbox
                B == call.detections[j].bbox
                r == IoU(A, B)
                shared == SharedArea(A, B)
            IN  /\ r = IoU(B, A)
                /\ r.computed =>
                      /\ r.union > 0
                      /\ r.intersection = shared
                      /\ r.union = CoveredArea(A, B)
                /\ shared = 0 =>
                      /\ ~r.computed
                      /\ ~IoUExceeds(A, B, call.num, call.den)

\* A box, a box touching it and an empty box were compared and all kept at
\* threshold 0.
C17_Witness ==
    /\ Suppressed
    /\ call.num = 0
    /\ Len(ret.value) = 3
    /\ {ret.value[k].bbox : k \in 1..3} = {<<0, 0, 2, 2>>, <<2, 0, 1, 1>>, <<0, 0, 0, 0>>}

\* C18 as stated: for every box A the IoU of A with itself is 1.0, so two
\* detections with the same box are never both kept when iou_threshold < 1.
C18_SelfIoUIsOne ==
    Suppressed =>
        /\ \A i \in 1..Len(call.detections) :
              LET r == IoU(call.detections[i].bbox, call.detections[i].bbox)
              IN  r.computed /\ r.intersection = r.union
        /\ call.num < call.den =>
              \A i, j \in 1..Len(ret.value) :
                  i # j => ret.value[i].bbox # ret.value[j].bbox

\* C18 for boxes of positive width and height: the IoU of A with itself is
\* 1.0, and two detections with the same such box are never both kept when
\* iou_threshold < 1.
C18_SelfIoUIsOneForPositiveArea ==
    Suppressed =>
        /\ \A i \in 1..Len(call.detections) :
              LET A == call.detections[i].bbox
                  r == IoU(A, A)
              IN  (A[3] > 0 /\ A[4] > 0) => (r.computed /\ r.intersection = r.union)
        /\ call.num < call.den =>
              \A i, j \in 1..Len(ret.value) :
                  (i # j /\ ret.value[i].bbox[3] > 0 /\ ret.value[i].bbox[4] > 0)
                      => ret.value[i].bbox # ret.value[j].bbox

\* Three detections with the same box of positive area were given and one
\* was kept, at threshold 1/2.
C18_Witness ==
    /\ Suppressed
    /\ call.num = 1
    /\ call.den = 2
    /\ Len(call.detections) = 3
    /\ \A k \in 1..3 : call.detections[k].bbox = <<1, 0, 2, 2>>
    /\ Len(ret.value) = 1

\* The cells of a width x height frame for window size s and stride t:
\* multiples of t below width - s and below height - s.
GridCells(width, height, s, t) ==
    {<<x, y>> \in (0..width) \X (0..height) :
        x % t = 0 /\ x < width - s /\ y % t = 0 /\ y < height - s}

\* C19: the scan visits exactly the grid cells, each once; every window is
\* s x s and inside the frame; every detection box is [x, y, s, s] of a
\* visited cell; a frame no wider or no higher than s has no windows.
C19_SlidingWindowGrid ==
    (call.fn = "sliding_window_detection" /\ ret.done) =>
        LET width == call.width
            height == call.height
            s == call.window_size
            windows == ret.value.windows
            grid == GridCells(width, height, s, call.stride)
        IN  /\ {<<windows[k].x, windows[k].y>> : k \in 1..Len(windows)} = grid
            /\ Len(windows) = Cardinality(grid)
            /\ \A k \in 1..Len(windows) :
                  /\ windows[k].w = s /\ windows[k].h = s
                  /\ windows[k].x >= 0 /\ windows[k].x + s <= width
                  /\ windows[k].y >= 0 /\ windows[k].y + s <= height
            /\ \A k \in 1..Len(ret.value.detections) :
                  \E c \in grid : ret.value.detections[k].bbox = <<c[1], c[2], s, s>>
            /\ (width <= s \/ height <= s) => windows = <<>>

\* A 4 x 4 frame scanned with window 1 and stride 2: four windows, the
\* column and row at 3 left out, one detection.
C19_Witness ==
    /\ call.fn = "sliding_window_detection"
    /\ ret.done
    /\ call.width = 4 /\ call.height = 4 /\ call.window_size = 1 /\ call.stride = 2
    /\ Len(ret.value.windows) = 4
    /\ Len(ret.value.detections) = 1
    /\ ret.value.detections[1].bbox = <<2, 2, 1, 1>>

\* C20: every box the tracker publishes is the box found on the downscaled
\* frame with each of x, y, w, h divided by the scale factor 0.5, i.e.
\* doubled, and lies inside the full-resolution frame.
C20_BackProjectionExact ==
    variant = "tracker" =>
        \A k \in 1..Len(last_results.items) :
            LET d == last_results.items[k]
            IN  /\ \A c \in 1..4 : d.bbox[c] = ScaleInv * d.window[c]
                /\ d.bbox[1] >= 0
                /\ d.bbox[2] >= 0
                /\ d.bbox[1] + d.bbox[3] <= frame_shape[1]
                /\ d.bbox[2] + d.bbox[4] <= frame_shape[2]

\* On a frame of odd width and height the window in the last column and
\* row of the downscaled frame was found and published.
C20_Witness ==
    /\ variant = "tracker"
    /\ frame_shape = <<FrameWidth + 1, FrameHeight + 1>>
    /\ last_results.pass = 1
    /\ \E k \in 1..Len(last_results.items) :
          /\ last_results.items[k].window = <<WindowSize, Stride, WindowSize, WindowSize>>
          /\ last_results.items[k].bbox[1] + last_results.items[k].bbox[3] = FrameWidth
          /\ last_results.items[k].bbox[2] + last_results.items[k].bbox[4] = FrameHeight


\* C21: for a non-empty catalog and a loadable image run_full_detection
\* returns one verdict per catalog position, in catalog order, each with its
\* position's id; a position whose classification failed has status error
\* and every other position has the status its own classification gave.
C21_OneVerdictPerPosition ==
    (ret.done /\ call.fn = "run_full_detection" /\ call.loadable /\ Len(call.config) > 0) =>
        /\ ~ret.value.raised
        /\ Len(ret.value.results) = Len(call.config)
        /\ \A i \in 1..Len(call.config) :
              /\ ret.value.results[i].tool_id = call.config[i].id
              /\ ret.value.results[i].status =
                    IF call.outcomes[i] = Raises THEN "error" ELSE call.outcomes[i]

\* A pass over three positions listed out of id order, the middle one failing.
C21_Witness ==
    /\ ret.done
    /\ call.fn = "run_full_detection"
    /\ call.loadable
    /\ Len(call.config) = 3
    /\ call.config[1].id = 2
    /\ call.outcomes = <<"present", Raises, "missing">>
    /\ ret.value.results[2].status = "error"
    /\ ret.value.results[3].status = "missing"


\* C22: the box of every verdict is the catalog box [x, y, width, height] of
\* its position, unchanged, whatever the outcome of the classification.
C22_BoxUnchanged ==
    (ret.done /\ call.fn = "run_full_detection" /\ ~ret.value.raised) =>
        \A i \in 1..Len(ret.value.results) :
            ret.value.results[i].bbox = call.config[i].bbox

\* C30: a pass over a catalog without positions, on a loadable image, returns
\* the empty verdict list and does not raise.
C30_EmptyCatalogPass ==
    (ret.done /\ call.fn = "run_full_detection" /\ call.loadable /\ call.config = <<>>) =>
        /\ ~ret.value.raised
        /\ ret.value.results = <<>>


\* C23: in both status summaries the error verdicts have a count of their
\* own, and the present, missing, uncertain and error counts add up to the
\* number of verdicts.
C23_ErrorCountedApart ==
    /\ (ret.done /\ call.fn = "analyze_workspace_status") =>
          ret.value.present_tools + ret.value.missing_tools + ret.value.uncertain_tools
             + ret.value.error_tools = ret.value.total_tools
    /\ (ret.done /\ call.fn = "draw_results_overlay" /\ ret.value.drawn) =>
          LET counts == ret.value.counts
              errors == IF "error" \in DOMAIN counts THEN counts.error ELSE 0
          IN  counts.present + counts.missing + counts.uncertain + errors = counts.total


\* The class the resolver expects at position p, and whether the region of
\* position q was classified as a class that matches it.
Resolved == ret.done /\ call.fn = "detect_with_misplacement_check"
ExpectedAt(p) == tool_mapping(call.config[p].name)
MatchedAt(p, q) ==
    /\ call.outcomes[q].returned
    /\ is_correct_tool(ExpectedAt(p), call.outcomes[q].tool)
MatchedElsewhere(p) == {q \in 1..Len(call.config) : q # p /\ MatchedAt(p, q)}

\* C24: every position p is reported correct iff its expected class matches
\* the class detected at p, else misplaced iff it matches the class detected
\* at another position, else missing; foundAt is set iff the status is
\* misplaced and never names p's own position.
C24_StatusOfEveryPosition ==
    Resolved =>
        \A p \in 1..Len(call.config) :
            LET v == ret.value.results[p]
            IN  /\ v.actual_status = "correct" <=> MatchedAt(p, p)
                /\ v.actual_status = "misplaced" <=>
                      (~MatchedAt(p, p) /\ MatchedElsewhere(p) # {})
                /\ v.actual_status = "missing" <=>
                      (~MatchedAt(p, p) /\ MatchedElsewhere(p) = {})
                /\ Truthy(v.found_at) <=> v.actual_status = "misplaced"
                /\ v.found_at # v.expected_position

\* C25: when the expected class of p is not matched at p but is matched at
\* other positions, foundAt names the first of them in catalog order.
C25_FirstMatchInCatalogOrder ==
    Resolved =>
        \A p \in 1..Len(call.config) :
            (~MatchedAt(p, p) /\ MatchedElsewhere(p) # {}) =>
                LET q == CHOOSE q \in MatchedElsewhere(p) : \A r \in MatchedElsewhere(p) : q <= r
                IN  ret.value.results[p].found_at = PositionOf(call.config[q].name)

\* C26: a position whose region gave no outcome in this pass is never
\* reported correct.
C26_NoOutcomeNeverCorrect ==
    Resolved =>
        \A p \in 1..Len(call.config) :
            ~call.outcomes[p].returned => ret.value.results[p].actual_status # "correct"


\* The item of roi_analysis a search for the class expected at q ends at:
\* the first one, other than q's own, whose detected class matches.
FirstElsewhere(q, k) ==
    LET roi == ret.value.roi_analysis
        hit(j) == /\ roi[j].key # call.config[q].name
                  /\ is_correct_tool(ExpectedAt(q), roi[j].value.detected)
    IN  /\ k \in 1..Len(roi)
        /\ hit(k)
        /\ \A j \in 1..(k - 1) : ~hit(j)
MatchedAtOwn(q) ==
    \E k \in 1..Len(ret.value.roi_analysis) :
        /\ ret.value.roi_analysis[k].key = call.config[q].name
        /\ is_correct_tool(ExpectedAt(q), ret.value.roi_analysis[k].value.detected)

\* C27: the resolver assigns positions independently: when a position p is
\* reported misplaced and found at some position, any other position q
\* whose own search ends at that same position is reported misplaced and
\* found there too, whether its verdict is computed before or after p's.
C27_NoOneToOneAssignment ==
    Resolved =>
        \A p, q \in 1..Len(call.config) :
            LET vp == ret.value.results[p]
                vq == ret.value.results[q]
            IN  (/\ p # q
                 /\ vp.actual_status = "misplaced"
                 /\ DictHas(ret.value.roi_analysis, call.config[q].name)
                 /\ ~MatchedAtOwn(q)
                 /\ \E k \in 1..Len(ret.value.roi_analysis) :
                       /\ FirstElsewhere(q, k)
                       /\ PositionOf(ret.value.roi_analysis[k].key) = vp.found_at)
                => (vq.actual_status = "misplaced" /\ vq.found_at = vp.found_at)

\* The flat and the cross screwdriver are both reported misplaced and found
\* at the hammer's position, where a screwdriver was detected.
C27_Witness ==
    /\ Resolved
    /\ Len(call.config) = 3
    /\ call.config[1].name = flat_screwdriver
    /\ call.config[2].name = cross_screwdriver
    /\ call.config[3].name = hammer
    /\ ret.value.results[1].actual_status = "misplaced"
    /\ ret.value.results[2].actual_status = "misplaced"
    /\ ret.value.results[1].found_at = PositionOf(hammer)
    /\ ret.value.results[2].found_at = PositionOf(hammer)


\* The catalog file is missing or malformed.
BadCatalogFile(file) ==
    \/ ~file.exists
    \/ ~file.parses
    \/ \E k \in 1..Len(file.annotations) : ~file.annotations[k].wellformed

\* C28: with a missing or malformed catalog file load_workspace_configuration
\* raises and returns no catalog, the construction of VideoStreamDetector
\* raises and no pass is started, and setup_detectors returns False and no
\* frame is processed.
C28_BadCatalogStartsNothing ==
    (ret.done /\ "file" \in DOMAIN call /\ BadCatalogFile(call.file)) =>
        /\ call.fn = "load_workspace_configuration" =>
              (ret.raised /\ "value" \notin DOMAIN ret)
        /\ call.fn = "VideoStreamDetector" =>
              (ret.raised /\ "workspace_config" \notin DOMAIN ret /\ "passes" \notin DOMAIN ret)
        /\ call.fn = "setup_detectors" =>
              (~ret.value /\ "workspace_config" \notin DOMAIN ret /\ ret.frames = 0)

\* setup_detectors returned False for a file whose second annotation is
\* malformed after a well-formed first one.
C28_Witness ==
    /\ ret.done
    /\ call.fn = "setup_detectors"
    /\ call.file.exists
    /\ call.file.parses
    /\ Len(call.file.annotations) = 2
    /\ call.file.annotations[1].wellformed
    /\ ~call.file.annotations[2].wellformed
    /\ ~ret.value


\* C29: once a pass of the stream detector's worker has ended, whether its
\* run_full_detection returned or raised, temp_frame.jpg does not exist.
C29_TempFileRemoved ==
    (variant = "stream" /\ lastEnded.pass > 0 /\ workers = {}) => ~temp_file

====
